---- MODULE Spec2Model ----
(***************************************************************************)
(* hashdiff.py: drift detection between two files or two directory trees.  *)
(*                                                                         *)
(* A path is a sequence of segments (pathlib's parts), a segment is a      *)
(* sequence of code points, file contents are sequences of bytes.  A       *)
(* directory tree is a function from the relative paths of its leaves      *)
(* (regular files and empty directories) to what is there; every proper    *)
(* prefix of a leaf path is a directory.                                   *)
(***************************************************************************)
EXTENDS Integers, Sequences, FiniteSets, Bags, TLC

\* ------------------------------------------------------------------ bounds
MaxLeaves == 2        \* leaves (files, empty directories) of one tree
MaxContentLen == 1    \* bytes of one file

\* ------------------------------------------------------- names and inputs
NameTmp == <<116, 109, 112>>                                 \* "tmp"
NameAb == <<97, 98>>                                         \* "ab"
NameBa == <<98, 97>>                                         \* "ba"
DotA == <<46, 97>>                                           \* ".a"
ADot == <<97, 46>>                                           \* "a."
DotADot == <<46, 97, 46>>                                    \* ".a."
DotGit == <<46, 103, 105, 116>>                              \* ".git"
DotGitignore == <<46, 103, 105, 116, 105, 103, 110, 111, 114, 101>>
LazyLock == <<108, 97, 122, 121, 45, 108, 111, 99, 107, 46, 106, 115, 111, 110>>

Slash == <<47>>                                              \* "/"
ContentBytes == {97}

RECURSIVE SeqsUpTo(_, _)
SeqsUpTo(S, n) ==
    IF n = 0 THEN {<<>>}
    ELSE LET shorter == SeqsUpTo(S, n - 1)
         IN shorter \cup {Append(s, x) : s \in {t \in shorter : Len(t) = n - 1}, x \in S}

Contents == SeqsUpTo(ContentBytes, MaxContentLen)

\* Absolute paths of the two roots: the source is /tmp/ab, the target is
\* /tmp/ba or /tmp/.git/ab (a root below a directory named .git).
SourceRoots == {<<NameTmp, NameAb>>}
TargetRoots == {<<NameTmp, NameBa>>, <<NameTmp, DotGit, NameAb>>}

\* Relative paths a leaf may have: regular names, an ignored name, one level
\* of nesting under a regular directory and under a directory named .git.  The
\* names .a, .a/a. and .a. are such that the order of the segment sequences
\* and the order of the joined strings differ ("." is below "/").
RelPaths ==
    {<<DotA>>, <<ADot>>, <<DotADot>>, <<LazyLock>>,
     <<DotA, ADot>>, <<DotGit, DotA>>}

FileLeaf(c) == [kind |-> "file", data |-> c]
DirLeaf == [kind |-> "dir", data |-> <<>>]
Leaves == {FileLeaf(c) : c \in Contents} \cup {DirLeaf}

IsPrefix(p, q) == Len(p) <= Len(q) /\ SubSeq(q, 1, Len(p)) = p
IsProperPrefix(p, q) == Len(p) < Len(q) /\ IsPrefix(p, q)

\* A tree is well formed when no leaf lies under another leaf.
WellFormed(t) ==
    \A p \in DOMAIN t : \A q \in DOMAIN t : ~IsProperPrefix(p, q)

\* What a leaf at a path may be: the file .a. has any contents, every other
\* leaf is an empty file.
LeafChoices(p) ==
    IF p = <<DotADot>> THEN {FileLeaf(c) : c \in Contents}
    ELSE {FileLeaf(<<>>)}

Trees ==
    {t \in UNION {[D -> Leaves] : D \in {D \in SUBSET RelPaths : Cardinality(D) <= MaxLeaves}} :
        WellFormed(t) /\ \A p \in DOMAIN t : t[p] \in LeafChoices(p)}

NoTree == [p \in {} |-> DirLeaf]

Missing(abs) == [abs |-> abs, kind |-> "missing", data |-> <<>>, tree |-> NoTree]
RegularFile(abs, c) == [abs |-> abs, kind |-> "file", data |-> c, tree |-> NoTree]
Directory(abs, t) == [abs |-> abs, kind |-> "dir", data |-> <<>>, tree |-> t]

Nodes(abs) ==
    {Missing(abs)} \cup {RegularFile(abs, c) : c \in Contents}
        \cup {Directory(abs, t) : t \in Trees}

\* --------------------------------------------------------------- pathlib
Min(a, b) == IF a < b THEN a ELSE b
Range(s) == {s[i] : i \in 1..Len(s)}

\* Python's order on str: lexicographic by code point, a proper prefix first.
StrLess(a, b) ==
    LET n == Min(Len(a), Len(b))
        differ == {i \in 1..n : a[i] # b[i]}
    IN IF differ = {} THEN Len(a) < Len(b)
       ELSE LET i == CHOOSE k \in differ : \A m \in differ : k <= m
            IN a[i] < b[i]

\* PurePath.__lt__: the parts are compared as a tuple of str, lexicographic
\* again.
PathLess(p, q) ==
    LET n == Min(Len(p), Len(q))
        differ == {i \in 1..n : p[i] # q[i]}
    IN IF differ = {} THEN Len(p) < Len(q)
       ELSE LET i == CHOOSE k \in differ : \A m \in differ : k <= m
            IN StrLess(p[i], q[i])

RECURSIVE sorted(_)
sorted(S) ==
    IF S = {} THEN <<>>
    ELSE LET first == CHOOSE x \in S : \A y \in S \ {x} : PathLess(x, y)
         IN <<first>> \o sorted(S \ {first})

\* Path.rglob("*"): every entry below the directory, files and directories.
rglob(directory) ==
    UNION {{directory.abs \o SubSeq(p, 1, k) : k \in 1..Len(p)} : p \in DOMAIN directory.tree}

relative_to(file, abs) == SubSeq(file, Len(abs) + 1, Len(file))
name(file) == file[Len(file)]
parts(file) == {file[i] : i \in 1..Len(file)}

is_file(root, file) ==
    LET rel == relative_to(file, root.abs)
    IN IF rel = <<>> THEN root.kind = "file"
       ELSE rel \in DOMAIN root.tree /\ root.tree[rel].kind = "file"

is_dir(root, file) ==
    LET rel == relative_to(file, root.abs)
    IN IF rel = <<>> THEN root.kind = "dir"
       ELSE \/ rel \in DOMAIN root.tree /\ root.tree[rel].kind = "dir"
            \/ \E p \in DOMAIN root.tree : IsProperPrefix(rel, p)

\* open(file, "rb") and the chunked reads: the whole contents.
read(root, file) ==
    LET rel == relative_to(file, root.abs)
    IN IF rel = <<>> THEN root.data ELSE root.tree[rel].data

\* str(path): the segments joined by "/".
RECURSIVE str(_)
str(p) ==
    IF p = <<>> THEN <<>>
    ELSE IF Len(p) = 1 THEN p[1]
    ELSE p[1] \o Slash \o str(Tail(p))

\* str.encode("utf-8"), for code points below 2048: one byte below 128, two
\* bytes from there on.
RECURSIVE encode_utf8(_)
encode_utf8(s) ==
    IF \A i \in 1..Len(s) : s[i] < 128 THEN s
    ELSE LET c == Head(s)
         IN (IF c < 128 THEN <<c>> ELSE <<192 + (c \div 64), 128 + (c % 64)>>)
                \o encode_utf8(Tail(s))

\* --------------------------------------------------------------- hashlib
\* sha256 is taken as collision free: the hex digest stands for the bytes fed.
NoHash == [set |-> FALSE, hex |-> <<>>]
hexdigest(fed) == [set |-> TRUE, hex |-> fed]

\* What a digest operation gives: the digest, or the file whose open raised.
Returned(h) == [raised |-> FALSE, at |-> <<>>, digest |-> h]
Raised(file) == [raised |-> TRUE, at |-> file, digest |-> NoHash]

\* The regular files at or below a root.
FilesOf(root) ==
    IF root.kind = "file" THEN {root.abs}
    ELSE {root.abs \o p : p \in {q \in DOMAIN root.tree : root.tree[q].kind = "file"}}

\* The files whose open or read fails during one operation, among those it
\* opens: none, or one.
UnreadableAmong(files) == {{}} \cup {{f} : f \in files}

\* ------------------------------------------------------ compute_file_hash
compute_file_hash(root, file_path, bad) ==
    IF file_path \in bad THEN Raised(file_path)
    ELSE Returned(hexdigest(read(root, file_path)))

\* ------------------------------------------------------- compute_dir_hash
ignore_dirs == {DotGit}
ignore_files == {DotGitignore, LazyLock}

\* Mutant: only the entry's own name is held against the ignored directories.
DirHashKeeps_NameOnly(directory, file) ==
    /\ name(file) \notin ignore_dirs
    /\ is_file(directory, file)
    /\ name(file) \notin ignore_files

\* Lines 54-56: the entries of the walk that are folded into the hash.
DirHashKeeps(directory, file) ==
    /\ ~(\E part \in parts(file) : part \in ignore_dirs)
    /\ is_file(directory, file)
    /\ name(file) \notin ignore_files

DirHashFiles(directory) ==
    LET Keeps(file) == DirHashKeeps(directory, file)
    IN SelectSeq(sorted(rglob(directory)), Keeps)

\* Mutant: the contents are fed before the relative path.
HasherUpdates_ContentsFirst(directory, file) ==
    read(directory, file) \o encode_utf8(str(relative_to(file, directory.abs)))

\* Lines 58-65 for one file: the relative path, then the contents.
HasherUpdates(directory, file) ==
    encode_utf8(str(relative_to(file, directory.abs))) \o read(directory, file)

RECURSIVE FeedAll(_, _)
FeedAll(directory, files) ==
    IF files = <<>> THEN <<>>
    ELSE HasherUpdates(directory, Head(files)) \o FeedAll(directory, Tail(files))

\* Mutant: a file that cannot be opened is skipped.
HashFiles_SkipUnreadable(directory, files, bad) ==
    LET Readable(file) == file \notin bad
    IN Returned(hexdigest(FeedAll(directory, SelectSeq(files, Readable))))

\* Lines 57-67: the files are opened and fed in turn; the first that cannot be
\* opened or read ends the call with its error.
HashFiles(directory, files, bad) ==
    LET failing == {i \in 1..Len(files) : files[i] \in bad}
    IN IF failing # {}
       THEN Raised(files[CHOOSE i \in failing : \A j \in failing : i <= j])
       ELSE Returned(hexdigest(FeedAll(directory, files)))

compute_dir_hash(directory, bad) ==
    HashFiles(directory, DirHashFiles(directory), bad)

\* ------------------------------------------------------ file_by_file_hash
fbf_ignore_dirs == {DotGit}
fbf_ignore_files == {DotGitignore, LazyLock}

\* Mutant: the index forgets the ignored file names.
IndexKeeps_NoIgnoredFiles(directory, file) ==
    /\ ~(\E part \in parts(file) : part \in fbf_ignore_dirs)
    /\ is_file(directory, file)

\* Mutant: the index is built from the entries directly below the root only.
IndexKeeps_TopLevelOnly(directory, file) ==
    /\ ~(\E part \in parts(file) : part \in fbf_ignore_dirs)
    /\ is_file(directory, file)
    /\ name(file) \notin fbf_ignore_files
    /\ Len(relative_to(file, directory.abs)) = 1

\* Lines 78-80 and 86-88: the entries of the walk that enter the index.
IndexKeeps(directory, file) ==
    /\ ~(\E part \in parts(file) : part \in fbf_ignore_dirs)
    /\ is_file(directory, file)
    /\ name(file) \notin fbf_ignore_files

\* Lines 76-82 and 84-90: relative path -> path of the file (the order of the
\* walk leaves no trace in the dict).
BuildIndex(directory) ==
    LET kept == {file \in rglob(directory) : IndexKeeps(directory, file)}
    IN [rel \in {relative_to(file, directory.abs) : file \in kept} |-> directory.abs \o rel]

NoIndex == [rel \in {} |-> <<>>]

\* One printed line.
Line(kind, path) == [kind |-> kind, path |-> path, a |-> NoHash, b |-> NoHash]
DigestsLine(a, b) == [kind |-> "digests", path |-> <<>>, a |-> a, b |-> b]

\* Lines 100-101: the files the loop opens for a path, those of a path in both
\* indexes.
Opened(archive_files, active_files, path) ==
    IF path \in DOMAIN archive_files /\ path \in DOMAIN active_files
    THEN {archive_files[path], active_files[path]}
    ELSE {}

\* Mutant: New and Deleted are exchanged.
ComparePath_Swapped(archive, active, archive_files, active_files, path, diff, bad) ==
    IF path \notin DOMAIN archive_files
    THEN [raised |-> FALSE, at |-> <<>>, hashed |-> FALSE, lines |-> <<Line("deleted", path)>>]
    ELSE IF path \notin DOMAIN active_files
    THEN [raised |-> FALSE, at |-> <<>>, hashed |-> FALSE, lines |-> <<Line("new", path)>>]
    ELSE [raised |-> FALSE, at |-> <<>>, hashed |-> TRUE,
          lines |-> IF read(archive, archive_files[path]) # read(active, active_files[path])
                    THEN <<Line("modified", path)>> ELSE <<>>]

\* Mutant: a path in both indexes is reported without comparing the digests.
ComparePath_NoCompare(archive, active, archive_files, active_files, path, diff, bad) ==
    IF path \notin DOMAIN archive_files
    THEN [raised |-> FALSE, at |-> <<>>, hashed |-> FALSE, lines |-> <<Line("new", path)>>]
    ELSE IF path \notin DOMAIN active_files
    THEN [raised |-> FALSE, at |-> <<>>, hashed |-> FALSE, lines |-> <<Line("deleted", path)>>]
    ELSE [raised |-> FALSE, at |-> <<>>, hashed |-> TRUE, lines |-> <<Line("modified", path)>>]

\* Lines 95-105 for one path: what is printed, or the file whose open raised.
ComparePath(archive, active, archive_files, active_files, path, diff, bad) ==
    IF path \notin DOMAIN archive_files
    THEN [raised |-> FALSE, at |-> <<>>, hashed |-> FALSE, lines |-> <<Line("new", path)>>]
    ELSE IF path \notin DOMAIN active_files
    THEN [raised |-> FALSE, at |-> <<>>, hashed |-> FALSE, lines |-> <<Line("deleted", path)>>]
    ELSE LET a_hash == compute_file_hash(archive, archive_files[path], bad)
             b_hash == compute_file_hash(active, active_files[path], bad)
         IN IF a_hash.raised
            THEN [raised |-> TRUE, at |-> a_hash.at, hashed |-> TRUE, lines |-> <<>>]
            ELSE IF b_hash.raised
            THEN [raised |-> TRUE, at |-> b_hash.at, hashed |-> TRUE, lines |-> <<>>]
            ELSE IF a_hash.digest # b_hash.digest
            THEN [raised |-> FALSE, at |-> <<>>, hashed |-> TRUE,
                  lines |-> <<Line("modified", path)>>
                            \o (IF diff THEN <<Line("diff", path)>> ELSE <<>>)]
            ELSE [raised |-> FALSE, at |-> <<>>, hashed |-> TRUE, lines |-> <<>>]

\* ------------------------------------------------------------------ state
VARIABLES
    source, target,      \* args.source, args.target and what is on disk there
    verbose, diff,       \* args.verbose, args.diff
    pc,                  \* where main is
    hash_source, hash_target,
    out,                 \* the lines main has printed so far
    report,              \* the lines file_by_file_hash has printed, as a bag
    archive_files, active_files, all_paths,
    todo,                \* the paths the loop of line 94 has not visited yet
    called,              \* the functions main has called so far
    hashed,              \* the paths file_by_file_hash hashed on both sides
    faulted              \* the files whose open or read failed

vars == <<source, target, verbose, diff, pc, hash_source, hash_target, out, report,
          archive_files, active_files, all_paths, todo, called, hashed, faulted>>

Init ==
    /\ source \in UNION {Nodes(abs) : abs \in SourceRoots}
    /\ target \in UNION {Nodes(abs) : abs \in TargetRoots}
    /\ verbose \in BOOLEAN
    /\ diff \in BOOLEAN
    /\ pc = "main"
    /\ hash_source = NoHash
    /\ hash_target = NoHash
    /\ out = <<>>
    /\ report = EmptyBag
    /\ archive_files = NoIndex
    /\ active_files = NoIndex
    /\ all_paths = {}
    /\ todo = {}
    /\ called = {}
    /\ hashed = {}
    /\ faulted = {}

\* Line 145.
BothFiles == is_file(source, source.abs) /\ is_file(target, target.abs)

\* Mutant: one directory is enough.
BothDirs_Either == is_dir(source, source.abs) \/ is_dir(target, target.abs)

\* Line 157.
BothDirs == is_dir(source, source.abs) /\ is_dir(target, target.abs)

\* Lines 169-170.
MainError ==
    /\ pc = "main"
    /\ ~BothFiles /\ ~BothDirs
    /\ out' = Append(out, Line("error", <<>>))
    /\ pc' = "done"
    /\ UNCHANGED <<source, target, verbose, diff, hash_source, hash_target, report,
                   archive_files, active_files, all_paths, todo, called, hashed, faulted>>

\* Line 146.
FileHashSource ==
    /\ pc = "main"
    /\ BothFiles
    /\ \E bad \in UnreadableAmong({source.abs}) :
         LET r == compute_file_hash(source, source.abs, bad)
         IN /\ hash_source' = r.digest
            /\ faulted' = faulted \cup bad
            /\ pc' = IF r.raised THEN "raised" ELSE "file_target"
    /\ called' = called \cup {"compute_file_hash"}
    /\ UNCHANGED <<source, target, verbose, diff, hash_target, out, report,
                   archive_files, active_files, all_paths, todo, hashed>>

\* Line 147.
FileHashTarget ==
    /\ pc = "file_target"
    /\ \E bad \in UnreadableAmong({target.abs}) :
         LET r == compute_file_hash(target, target.abs, bad)
         IN /\ hash_target' = r.digest
            /\ faulted' = faulted \cup bad
            /\ pc' = IF r.raised THEN "raised" ELSE "file_print"
    /\ UNCHANGED <<source, target, verbose, diff, hash_source, out, report,
                   archive_files, active_files, all_paths, todo, called, hashed>>

\* Lines 149-155.
FilePrint ==
    /\ pc = "file_print"
    /\ out' = out \o <<DigestsLine(hash_source, hash_target)>>
                  \o (IF hash_source = hash_target
                      THEN <<Line("identical", <<>>)>>
                      ELSE <<Line("drifted", <<>>)>>
                           \o (IF diff THEN <<Line("diff", <<>>)>> ELSE <<>>))
    /\ called' = IF hash_source # hash_target /\ diff
                 THEN called \cup {"print_diff"} ELSE called
    /\ pc' = "done"
    /\ UNCHANGED <<source, target, verbose, diff, hash_source, hash_target, report,
                   archive_files, active_files, all_paths, todo, hashed, faulted>>

\* Line 158: compute_dir_hash(source), where any one of the files it opens may
\* fail.
DirHashSource ==
    /\ pc = "main"
    /\ ~BothFiles /\ BothDirs
    /\ LET files == DirHashFiles(source)
       IN \E bad \in UnreadableAmong(Range(files)) :
            LET r == HashFiles(source, files, bad)
            IN /\ hash_source' = r.digest
               /\ faulted' = faulted \cup bad
               /\ pc' = IF r.raised THEN "raised" ELSE "dir_target"
    /\ called' = called \cup {"compute_dir_hash"}
    /\ UNCHANGED <<source, target, verbose, diff, hash_target, out, report,
                   archive_files, active_files, all_paths, todo, hashed>>

\* Line 159: compute_dir_hash(target), likewise.
DirHashTarget ==
    /\ pc = "dir_target"
    /\ LET files == DirHashFiles(target)
       IN \E bad \in UnreadableAmong(Range(files)) :
            LET r == HashFiles(target, files, bad)
            IN /\ hash_target' = r.digest
               /\ faulted' = faulted \cup bad
               /\ pc' = IF r.raised THEN "raised" ELSE "dir_print"
    /\ UNCHANGED <<source, target, verbose, diff, hash_source, out, report,
                   archive_files, active_files, all_paths, todo, called, hashed>>

\* Mutant: --diff alone starts the granular pass too.
RunsGranular_OrDiff(h_source, h_target, v, d) == h_source # h_target /\ (v \/ d)

\* Lines 162-166: the granular pass follows a drifted verdict under --verbose.
RunsGranular(h_source, h_target, v, d) == h_source # h_target /\ v

\* Lines 161-166.
DirPrint ==
    /\ pc = "dir_print"
    /\ out' = out \o <<DigestsLine(hash_source, hash_target)>>
                  \o (IF hash_source = hash_target
                      THEN <<Line("identical", <<>>)>>
                      ELSE <<Line("drifted", <<>>)>>)
    /\ pc' = IF RunsGranular(hash_source, hash_target, verbose, diff) THEN "index" ELSE "done"
    /\ UNCHANGED <<source, target, verbose, diff, hash_source, hash_target, report,
                   archive_files, active_files, all_paths, todo, called, hashed, faulted>>

\* Lines 167 and 73-92: file_by_file_hash is entered and builds its indexes.
BuildIndexes ==
    /\ pc = "index"
    /\ archive_files' = BuildIndex(source)
    /\ active_files' = BuildIndex(target)
    /\ all_paths' = DOMAIN archive_files' \cup DOMAIN active_files'
    /\ todo' = all_paths'
    /\ called' = called \cup {"file_by_file_hash"}
    /\ pc' = IF all_paths' = {} THEN "done" ELSE "compare"
    /\ UNCHANGED <<source, target, verbose, diff, hash_source, hash_target, out, report,
                   hashed, faulted>>

\* The lines one turn of the loop prints, as a bag.
Printed(lines) ==
    [l \in Range(lines) |-> Cardinality({i \in 1..Len(lines) : lines[i] = l})]

\* Lines 94-105: one turn of the loop, on any path not visited yet.  The set
\* all_paths is walked in any order.
CompareNext ==
    /\ pc = "compare"
    /\ \E path \in todo :
       \E bad \in UnreadableAmong(Opened(archive_files, active_files, path)) :
         LET r == ComparePath(source, target, archive_files, active_files, path, diff, bad)
         IN /\ report' = report (+) Printed(r.lines)
            /\ todo' = todo \ {path}
            /\ hashed' = IF r.hashed THEN hashed \cup {path} ELSE hashed
            /\ faulted' = faulted \cup bad
            /\ called' = called \cup (IF r.hashed THEN {"compute_file_hash"} ELSE {})
                                \cup (IF \E i \in 1..Len(r.lines) : r.lines[i].kind = "diff"
                                      THEN {"print_diff"} ELSE {})
            /\ pc' = IF r.raised THEN "raised"
                     ELSE IF todo' = {} THEN "done" ELSE "compare"
    /\ UNCHANGED <<source, target, verbose, diff, hash_source, hash_target, out,
                   archive_files, active_files, all_paths>>

Next ==
    \/ MainError
    \/ FileHashSource
    \/ FileHashTarget
    \/ FilePrint
    \/ DirHashSource
    \/ DirHashTarget
    \/ DirPrint
    \/ BuildIndexes
    \/ CompareNext

Spec == Init /\ [][Next]_vars

\* ------------------------------------------------------------ the claims
\* The filter as the design states it, on a relative path: no segment is an
\* ignored directory name and the last segment is no ignored file name.
RelIncluded(rel) ==
    /\ \A i \in 1..Len(rel) : rel[i] # DotGit
    /\ rel[Len(rel)] \notin {DotGitignore, LazyLock}

BothHashedDirs ==
    /\ source.kind = "dir" /\ target.kind = "dir"
    /\ hash_source.set /\ hash_target.set

\* C1: two roots holding the same tree (same relative paths of regular files,
\* same contents) have the same digest, whatever their absolute paths are,
\* also when a segment of a root's own path is ".git".
C1_SameTreeSameDigest ==
    (BothHashedDirs /\ source.tree = target.tree) => hash_source = hash_target

\* u is t with one included file moved to a new relative path that passes the
\* filter, contents kept, everything else as it was.
IsRenameOf(t, u) ==
    \E f \in DOMAIN t : \E p \in DOMAIN u :
        /\ t[f].kind = "file" /\ RelIncluded(f) /\ RelIncluded(p)
        /\ p \notin DOMAIN t /\ f \notin DOMAIN u
        /\ \A q \in DOMAIN t : ~IsPrefix(p, q)
        /\ DOMAIN u = (DOMAIN t \ {f}) \cup {p}
        /\ u[p] = t[f]
        /\ \A q \in DOMAIN t \ {f} : u[q] = t[q]

\* C2: renaming one included file to a new relative path, its bytes and all
\* other files unchanged, changes the digest of the tree.
C2_RenameChangesDigest ==
    (BothHashedDirs /\ IsRenameOf(source.tree, target.tree)) => hash_source # hash_target

\* How often a line of a kind was printed for a path.
Count(kind, path) == CopiesIn(Line(kind, path), report)

GranularDone == pc = "done" /\ "file_by_file_hash" \in called

\* The relative paths of all entries below either root.
EntriesOf(root) == {relative_to(file, root.abs) : file \in rglob(root)}

\* A regular file on one side, present but not a regular file on the other.
FileHereOtherThere(here, there, path) ==
    /\ is_file(here, here.abs \o path)
    /\ path \in EntriesOf(there)
    /\ ~is_file(there, there.abs \o path)

\* C3 as stated: a path that is a regular file on one side and something else
\* on the other is reported as Modified, not as New or Deleted, and is not
\* hashed.
C3_MixedKindIsModified ==
    GranularDone =>
        \A path \in EntriesOf(source) \cup EntriesOf(target) :
            (FileHereOtherThere(source, target, path) \/ FileHereOtherThere(target, source, path))
                => /\ Count("modified", path) = 1
                   /\ Count("new", path) = 0
                   /\ Count("deleted", path) = 0
                   /\ path \notin hashed

\* C3 as amended: when the pass completes, a key of the source index that is
\* present but not a regular file in the target is reported once as Deleted, a
\* key of the target index that is present but not a regular file in the
\* source is reported once as New; neither is reported as Modified, neither is
\* hashed.
C3_MixedKindIsNewOrDeleted ==
    GranularDone =>
        \A path \in EntriesOf(source) \cup EntriesOf(target) :
            /\ (path \in DOMAIN archive_files /\ FileHereOtherThere(source, target, path))
                   => /\ Count("deleted", path) = 1
                      /\ Count("new", path) = 0
                      /\ Count("modified", path) = 0
                      /\ path \notin hashed
            /\ (path \in DOMAIN active_files /\ FileHereOtherThere(target, source, path))
                   => /\ Count("new", path) = 1
                      /\ Count("deleted", path) = 0
                      /\ Count("modified", path) = 0
                      /\ path \notin hashed

\* A completed pass over a path that is a file in the source and a directory
\* in the target.
C3_Witness ==
    /\ GranularDone
    /\ \E path \in DOMAIN archive_files :
         FileHereOtherThere(source, target, path) /\ Count("deleted", path) = 1

\* The trees that are t with one ignored thing added: a file with an ignored
\* name, in the root or in a directory, or a directory named .git, in the root
\* or in a directory, empty or holding a file.
AddedContents == {<<>>} \cup {<<b>> : b \in ContentBytes}

IgnoredAdditions ==
    {[p \in {d \o <<n>>} |-> FileLeaf(c)] :
        d \in {<<>>, <<DotA>>}, n \in {DotGitignore, LazyLock}, c \in AddedContents}
    \cup {[p \in {d \o <<DotGit>>} |-> DirLeaf] : d \in {<<>>, <<DotA>>}}
    \cup {[p \in {d \o <<DotGit, DotA>>} |-> FileLeaf(c)] :
            d \in {<<>>, <<DotA>>}, c \in AddedContents}

Merge(t, added) == [p \in DOMAIN t \cup DOMAIN added |-> IF p \in DOMAIN added THEN added[p] ELSE t[p]]

WithIgnored(t) ==
    {Merge(t, added) : added \in {a \in IgnoredAdditions :
        /\ DOMAIN a \cap DOMAIN t = {}
        /\ \A p \in DOMAIN a : \A q \in DOMAIN t :
              /\ ~IsPrefix(p, q)
              /\ ~(IsProperPrefix(q, p) /\ t[q].kind = "file")
              /\ ~(\E i \in 1..Len(q) : q[i] = DotGit /\ IsPrefix(SubSeq(q, 1, i), p))}}

OnlyIgnored(t) ==
    \A p \in DOMAIN t : t[p].kind = "file" => ~RelIncluded(p)

UnchangedByIgnored(root, h) ==
    root.kind = "dir" =>
        /\ \A u \in WithIgnored(root.tree) :
              compute_dir_hash(Directory(root.abs, u), {}).digest = h
        /\ OnlyIgnored(root.tree) => h = hexdigest(<<>>)

\* C4: adding one file with an ignored name, or one directory named .git with
\* any contents, at any depth, leaves the digest of a tree unchanged; a tree
\* holding only ignored files has the digest of no input at all.  The digests
\* are looked at once both are there (they do not change afterwards).
C4_IgnoredLeavesDigestUnchanged ==
    pc = "dir_print" =>
        /\ UnchangedByIgnored(source, hash_source)
        /\ UnchangedByIgnored(target, hash_target)

\* A hashed tree with an included file to which ignored things can be added,
\* beside a hashed tree of ignored files only.
C4_Witness ==
    /\ BothHashedDirs
    /\ \E p \in DOMAIN source.tree : source.tree[p].kind = "file" /\ RelIncluded(p)
    /\ hash_source # hexdigest(<<>>)
    /\ WithIgnored(source.tree) # {}
    /\ DOMAIN target.tree # {} /\ OnlyIgnored(target.tree)
    /\ \E p \in DOMAIN target.tree : target.tree[p].kind = "file"
    /\ target.abs \in {<<NameTmp, NameBa>>}

\* The two file digests of a path in both indexes differ.
DigestsDiffer(path) ==
    read(source, archive_files[path]) # read(target, active_files[path])

\* C5: the granular pass reports each path at most once, as New iff it is a
\* key of the target index only, as Deleted iff it is a key of the source index
\* only, as Modified iff it is a key of both and the file digests differ; a
\* path in both with equal digests gives no line.
C5_ThreeDisjointClasses ==
    /\ \A path \in all_paths :
          Count("new", path) + Count("deleted", path) + Count("modified", path) <= 1
    /\ GranularDone =>
          \A path \in EntriesOf(source) \cup EntriesOf(target) :
              /\ Count("new", path) = 1
                    <=> (path \in DOMAIN active_files /\ path \notin DOMAIN archive_files)
              /\ Count("deleted", path) = 1
                    <=> (path \in DOMAIN archive_files /\ path \notin DOMAIN active_files)
              /\ Count("modified", path) = 1
                    <=> (/\ path \in DOMAIN archive_files
                         /\ path \in DOMAIN active_files
                         /\ DigestsDiffer(path))

\* A completed pass that printed a New, a Deleted and a Modified line.
C5_Witness ==
    /\ GranularDone
    /\ \E p \in all_paths : Count("new", p) = 1
    /\ \E p \in all_paths : Count("deleted", p) = 1
    /\ \E p \in all_paths : Count("modified", p) = 1

\* A completed pass that printed nothing for a path in both indexes.
C5_WitnessUnchanged ==
    /\ GranularDone
    /\ \E p \in DOMAIN archive_files \cap DOMAIN active_files :
         p \in hashed /\ ~DigestsDiffer(p) /\ Count("modified", p) = 0

GranularRan == "file_by_file_hash" \in called

\* C6: main runs the granular pass iff source and target are both directories,
\* their tree digests differ and --verbose was given (--diff alone never
\* starts it, nor equal digests, nor a pair of files), and only after it has
\* printed both digests and the drifted verdict.
C6_GranularIffDriftedAndVerbose ==
    /\ GranularRan =>
          /\ source.kind = "dir" /\ target.kind = "dir"
          /\ hash_source.set /\ hash_target.set
          /\ hash_source # hash_target
          /\ verbose
          /\ Len(out) >= 2
          /\ out[1] = DigestsLine(hash_source, hash_target)
          /\ out[2] = Line("drifted", <<>>)
    /\ (/\ BothHashedDirs
        /\ hash_source # hash_target
        /\ verbose
        /\ pc \notin {"dir_print", "index"}) => GranularRan

\* The pass has run, for a run given --diff as well.
C6_Witness ==
    /\ GranularRan /\ pc = "done" /\ diff
    /\ \E p \in all_paths : Count("modified", p) = 1 /\ Count("diff", p) = 1

\* The relative path of a file below the source or the target.
RelOf(file) ==
    IF IsPrefix(source.abs, file) THEN relative_to(file, source.abs)
    ELSE relative_to(file, target.abs)

\* C7: a failing open or read of a file that is being digested ends the run
\* with the error: the digest operation returns no digest, main prints no
\* digests line and no verdict when a top-level digest failed, and the granular
\* pass prints no New, Deleted or Modified line for the path it failed on and
\* visits no further path.
C7_ReadFailureAborts ==
    faulted # {} =>
        /\ pc = "raised"
        /\ ~GranularRan =>
              /\ out = <<>>
              /\ ~hash_target.set
              /\ (faulted \cap FilesOf(source) # {}) => ~hash_source.set
        /\ GranularRan =>
              \A file \in faulted :
                  /\ Count("new", RelOf(file)) = 0
                  /\ Count("deleted", RelOf(file)) = 0
                  /\ Count("modified", RelOf(file)) = 0
                  /\ RelOf(file) \in hashed
                  /\ RelOf(file) \notin todo

\* A tree digest that failed on the second of two included files.
C7_Witness ==
    /\ pc = "raised" /\ ~GranularRan /\ source.kind = "dir"
    /\ \E file \in faulted :
         /\ file \in FilesOf(source)
         /\ \E other \in Range(DirHashFiles(source)) : PathLess(other, file)

\* A granular pass that failed on a path.
C7_WitnessGranular ==
    /\ pc = "raised" /\ GranularRan
    /\ \E file \in faulted : RelOf(file) \in hashed

\* C8: when source and target are neither both regular files nor both
\* directories, main prints the error and ends: no digest is computed, no
\* digests line and no verdict are printed, no granular pass and no diff run.
C8_MismatchMakesNoComparison ==
    (~(source.kind = "file" /\ target.kind = "file")
        /\ ~(source.kind = "dir" /\ target.kind = "dir")) =>
        /\ called = {}
        /\ ~hash_source.set /\ ~hash_target.set
        /\ pc \in {"main", "done"}
        /\ pc = "main" => out = <<>>
        /\ pc = "done" => out = <<Line("error", <<>>)>>

\* The error was printed for a file against a directory or against a missing
\* target.
C8_Witness ==
    /\ pc = "done" /\ out = <<Line("error", <<>>)>>
    /\ source.kind = "file" /\ target.kind \in {"dir", "missing"}

\* The relative paths compute_dir_hash folds below a root.
FoldedRel(root) ==
    {relative_to(file, root.abs) : file \in {f \in rglob(root) : DirHashKeeps(root, f)}}

\* The bytes fed for a set of relative paths taken in ascending order of the
\* '/'-joined strings: for each path its bytes, then the file's bytes.
RECURSIVE FeedInStringOrder(_, _)
FeedInStringOrder(root, rels) ==
    IF rels = {} THEN <<>>
    ELSE LET first == CHOOSE r \in rels : \A o \in rels \ {r} : StrLess(str(r), str(o))
         IN encode_utf8(str(first)) \o root.tree[first].data
                \o FeedInStringOrder(root, rels \ {first})

\* The same with the paths compared segment by segment.
RECURSIVE FeedInPartsOrder(_, _)
FeedInPartsOrder(root, rels) ==
    IF rels = {} THEN <<>>
    ELSE LET first == CHOOSE r \in rels : \A o \in rels \ {r} : PathLess(r, o)
         IN encode_utf8(str(first)) \o root.tree[first].data
                \o FeedInPartsOrder(root, rels \ {first})

\* C9 as stated: compute_dir_hash feeds the hasher, for each file it includes,
\* in ascending lexicographic order of the relative path (the string whose
\* bytes are fed), the bytes of the relative path and then the file's
\* contents, and nothing else.  Each digest is looked at in the state
\* compute_dir_hash returns it in.
C9_PathThenContentsInStringOrder ==
    /\ pc = "dir_target"
          => hash_source = hexdigest(FeedInStringOrder(source, FoldedRel(source)))
    /\ pc = "dir_print"
          => hash_target = hexdigest(FeedInStringOrder(target, FoldedRel(target)))

\* C9 as amended: the files are taken in ascending order of the relative paths
\* compared segment by segment (each segment by code point, a path before its
\* extensions); for each the bytes of the relative path and then the file's
\* contents are fed, and nothing else; the order depends on the set of
\* relative paths only.
C9_PathThenContentsInPartsOrder ==
    /\ pc = "dir_target"
          => hash_source = hexdigest(FeedInPartsOrder(source, FoldedRel(source)))
    /\ pc = "dir_print"
          => hash_target = hexdigest(FeedInPartsOrder(target, FoldedRel(target)))

\* Two files were folded, one of them in a directory, one with contents, and
\* the two orders put them differently.
C9_Witness ==
    /\ pc = "dir_target"
    /\ Cardinality(FoldedRel(source)) = 2
    /\ \E r \in FoldedRel(source) : Len(r) = 2
    /\ \E r \in FoldedRel(source) : source.tree[r].data # <<>>
    /\ \E r \in FoldedRel(source) : \E o \in FoldedRel(source) :
         PathLess(r, o) /\ StrLess(str(o), str(r))

\* C10: an entry below a root is folded into the tree digest iff its relative
\* path is a key of the index the granular pass builds for that root.  The
\* indexes are looked at in the state they are built in.
C10_SameFilesInBothPasses ==
    (GranularRan /\ todo = all_paths) =>
        /\ DOMAIN archive_files = FoldedRel(source)
        /\ DOMAIN active_files = FoldedRel(target)

\* Both passes ran over a tree with an ignored file, a file below .git and an
\* included file.
C10_Witness ==
    /\ GranularRan /\ todo = all_paths
    /\ \E p \in DOMAIN source.tree : name(p) \in {DotGitignore, LazyLock}
    /\ \E p \in DOMAIN target.tree : p[1] = DotGit
    /\ DOMAIN archive_files # {}

\* The New, Deleted and Modified lines the granular pass has printed.
Reported ==
    {path \in all_paths :
        Count("new", path) + Count("deleted", path) + Count("modified", path) >= 1}

\* C11: for two directories that stay as they are during the run, when main
\* has printed the drifted verdict under --verbose and the run has come to its
\* end, the granular pass has run and has reported at least one path as New,
\* Deleted or Modified.  (A run ended by a failing open or read has no
\* completed report: that case is C7's.)
C11_DriftedReportsSomething ==
    (/\ pc = "done"
     /\ BothHashedDirs
     /\ hash_source # hash_target
     /\ verbose) => (GranularRan /\ Reported # {})

\* A completed pass after a drifted verdict whose only line is one Modified
\* path: both trees hold the same paths and one file differs in its contents.
C11_Witness ==
    /\ pc = "done" /\ GranularRan /\ verbose
    /\ DOMAIN archive_files = DOMAIN active_files
    /\ Cardinality(all_paths) = 2
    /\ Cardinality(Reported) = 1
    /\ \E path \in Reported : Count("modified", path) = 1

====
